---- MODULE Spec2Model ----
(***************************************************************************)
(* Model of the extraction-and-summarization pipeline of the news scraper: *)
(*   src/src/extractors/ai_summarizer.py   (summarize and its helpers)     *)
(*   src/src/extractors/article_parser.py  (_extract_metadata,             *)
(*                                          _extract_text, parse_article)  *)
(* and of its callers:                                                     *)
(*   src/src/main.py                       (run_scraper,                   *)
(*                                          filter_by_freshness)           *)
(*   src/src/utils/request_handler.py      (RequestHandler.get)            *)
(* Strings are sequences of one-character strings.  Python floats are      *)
(* IEEE-754 binary64 values, modelled bit-exactly (round to nearest, ties  *)
(* to even) on the range the summarizer uses (finite, non-negative,        *)
(* normal numbers).                                                        *)
(***************************************************************************)
EXTENDS Integers, Sequences, FiniteSets, TLC

(***************************************************************************)
(* Natural numbers below 2^60 as a pair <<hi, lo>> = hi * 2^30 + lo.       *)
(* They carry the 53-bit significands of the floats and the intermediate   *)
(* values of the float operations.                                         *)
(***************************************************************************)
Base == 2^30

BN(hi, lo) == <<hi, lo>>

BZero == BN(0, 0)

BOne == BN(0, 1)

BFromInt(n) == BN(n \div Base, n % Base)

BToInt(v) == (v[1] * Base) + v[2]

BLt(a, b) == \/ a[1] < b[1]
             \/ a[1] = b[1] /\ a[2] < b[2]

BLe(a, b) == a = b \/ BLt(a, b)

BAdd(a, b) == LET lo == a[2] + b[2]
              IN  BN(a[1] + b[1] + (lo \div Base), lo % Base)

\* a - b, for b <= a
BSub(a, b) == IF a[2] >= b[2]
              THEN BN(a[1] - b[1], a[2] - b[2])
              ELSE BN(a[1] - b[1] - 1, a[2] + Base - b[2])

BDbl(a) == BAdd(a, a)

BHalf(a) == BN(a[1] \div 2, (a[2] \div 2) + (a[1] % 2) * (Base \div 2))

BOdd(a) == a[2] % 2 = 1

\* v * 2^k, for v * 2^k < 2^60
BShl(v, k) ==
    IF k = 0 THEN v
    ELSE IF k >= 30 THEN BN(v[2] * 2^(k - 30), 0)
    ELSE BN((v[1] * 2^k) + (v[2] \div 2^(30 - k)), (v[2] % 2^(30 - k)) * 2^k)

\* v \div 2^k
BShr(v, k) ==
    IF k = 0 THEN v
    ELSE IF k >= 60 THEN BZero
    ELSE IF k >= 30 THEN BN(0, v[1] \div 2^(k - 30))
    ELSE BN(v[1] \div 2^k, ((v[1] % 2^k) * 2^(30 - k)) + (v[2] \div 2^k))

\* v * c for a small non-negative integer c (c < 2^10, v * c < 2^60)
BMulSmall(v, c) ==
    LET lo == (v[2] % 2^15) * c
        mi == ((v[2] \div 2^15) * c) + (lo \div 2^15)
    IN  BN((v[1] * c) + (mi \div 2^15), ((mi % 2^15) * 2^15) + (lo % 2^15))

\* number of significant bits of v
BitLen(v) ==
    IF v = BZero THEN 0
    ELSE CHOOSE n \in 1..60 : /\ BLe(BShl(BOne, n - 1), v)
                              /\ n < 60 => BLt(v, BShl(BOne, n))

\* binary64 significands have MantBits bits
MantBits == 53

(***************************************************************************)
(* binary64 values: [m |-> significand, e |-> exponent], value m * 2^e,    *)
(* with 2^52 <= m < 2^53, or FZero.                                        *)
(***************************************************************************)
FZero == [m |-> BZero, e |-> 0]

FIsZero(x) == x.m = BZero

\* The binary64 nearest to v * 2^e (ties to even).  st says that the exact
\* value is v * 2^e plus a non-zero fraction of 2^e; it is then given with
\* at least two bits beyond the significand.
RoundBig(v, e, st) ==
    IF v = BZero THEN FZero
    ELSE LET n == BitLen(v)
         IN  IF n <= MantBits
             THEN [m |-> BShl(v, MantBits - n), e |-> e - (MantBits - n)]
             ELSE LET sh   == n - MantBits
                      m0   == BShr(v, sh)
                      low  == BSub(v, BShl(m0, sh))
                      half == BShl(BOne, sh - 1)
                      up   == \/ BLt(half, low)
                              \/ low = half /\ (st \/ BOdd(m0))
                      r    == IF up THEN BAdd(m0, BOne) ELSE m0
                  IN  IF BitLen(r) > MantBits
                      THEN [m |-> BShr(r, 1), e |-> e + sh + 1]
                      ELSE [m |-> r, e |-> e + sh]

\* float(n) for a small non-negative integer n (exact)
FFromInt(n) == RoundBig(BFromInt(n), 0, FALSE)

FLt(x, y) ==
    IF FIsZero(y) THEN FALSE
    ELSE IF FIsZero(x) THEN TRUE
    ELSE \/ x.e < y.e
         \/ x.e = y.e /\ BLt(x.m, y.m)

FLe(x, y) == x = y \/ FLt(x, y)

\* Bits kept to the right of the larger operand of an addition
GuardBits == 6

\* x + y
FAdd(x, y) ==
    IF FIsZero(x) THEN y
    ELSE IF FIsZero(y) THEN x
    ELSE LET hi == IF x.e >= y.e THEN x ELSE y
             lo == IF x.e >= y.e THEN y ELSE x
             d  == hi.e - lo.e
         IN  IF d <= GuardBits
             THEN RoundBig(BAdd(BShl(hi.m, d), lo.m), lo.e, FALSE)
             ELSE LET sh   == d - GuardBits
                      kept == BShr(lo.m, sh)
                      lost == kept = BZero \/ BShl(kept, sh) # lo.m
                  IN  RoundBig(BAdd(BShl(hi.m, GuardBits), kept),
                               hi.e - GuardBits, lost)

RECURSIVE DivSteps(_, _, _)
\* Long division: k more quotient bits of s[2] / d appended to s[1];
\* s = <<quotient, remainder>>
DivSteps(s, d, k) ==
    IF k = 0 THEN s
    ELSE IF k = 1
         THEN LET r2 == BDbl(s[2])
              IN  IF BLe(d, r2) THEN <<BAdd(BDbl(s[1]), BOne), BSub(r2, d)>>
                                ELSE <<BDbl(s[1]), r2>>
    \* (the first half is evaluated to a value before the second half starts)
    ELSE CHOOSE r \in {DivSteps(h, d, k - k \div 2) : h \in {DivSteps(s, d, k \div 2)}} : TRUE

\* x / y for y # 0
FDiv(x, y) ==
    IF FIsZero(x) THEN FZero
    ELSE LET big == BLe(y.m, x.m)
             s0  == IF big THEN <<BOne, BSub(x.m, y.m)>> ELSE <<BZero, x.m>>
             k   == IF big THEN MantBits ELSE MantBits + 1
             qr  == DivSteps(s0, y.m, k)
             \* the quotient qr[1] has one bit more than a significand; two
             \* bits more once doubled, the remainder being the sticky bit
         IN  RoundBig(BDbl(qr[1]), x.e - y.e - k - 1, qr[2] # BZero)

\* c * x for a small non-negative integer c
FMulInt(c, x) ==
    IF c = 0 \/ FIsZero(x) THEN FZero
    ELSE RoundBig(BMulSmall(x.m, c), x.e, FALSE)

\* number of base-4 digits of n
NumPairs(n) == IF n = 0 THEN 0 ELSE CHOOSE p \in 1..15 : 4^(p - 1) <= n /\ n < 4^p

RECURSIVE SqrtSteps(_, _, _, _)
\* Digit-by-digit square root of n: root bits i+1 .. i+k, the i-th base-4
\* digit of n (zero after its last) entering at step i;
\* s = <<root, remainder>>
SqrtSteps(s, n, i, k) ==
    IF k = 0 THEN s
    ELSE IF k = 1
         THEN LET p     == NumPairs(n)
                  dg    == IF i + 1 <= p THEN (n \div 4^(p - i - 1)) % 4 ELSE 0
                  r4    == BAdd(BShl(s[2], 2), BFromInt(dg))
                  trial == BAdd(BShl(s[1], 2), BOne)
              IN  IF BLe(trial, r4) THEN <<BAdd(BDbl(s[1]), BOne), BSub(r4, trial)>>
                                    ELSE <<BDbl(s[1]), r4>>
    ELSE CHOOSE r \in {SqrtSteps(h, n, i + k \div 2, k - k \div 2) :
                        h \in {SqrtSteps(s, n, i, k \div 2)}} : TRUE

\* math.sqrt(n) for an integer 1 <= n < 4^15, digit by digit
FSqrtExact(n) ==
    LET rr == SqrtSteps(<<BZero, BZero>>, n, 0, MantBits + 1)
    IN  RoundBig(BDbl(rr[1]), NumPairs(n) - MantBits - 2, rr[2] # BZero)

\* The square roots of the lengths of short sentences, computed once
SqrtTable == {<<n, FSqrtExact(n)>> : n \in 1..16}

\* math.sqrt(n) for an integer 1 <= n < 4^15
FSqrtInt(n) ==
    IF n <= 16 THEN (CHOOSE p \in SqrtTable : p[1] = n)[2] ELSE FSqrtExact(n)

\* int(x) for 0 <= x < 2^30
FToInt(x) ==
    IF FIsZero(x) THEN 0
    ELSE IF x.e >= 0 THEN BToInt(BShl(x.m, x.e))
    ELSE BToInt(BShr(x.m, 0 - x.e))

(***************************************************************************)
(* Strings: sequences of characters.  Optional[str]: None, or Some(s).     *)
(***************************************************************************)
None == <<>>

Some(s) == <<s>>

\* Python truthiness of an Optional[str]
Truthy(o) == o # None /\ o[1] # <<>>

\* (variant: tests "is not None" instead of truthiness)
OrElseNotNone(o, s) == IF o # None THEN o[1] ELSE s

\* a or b, for an Optional[str] a and a str b
OrElse(o, s) == IF Truthy(o) THEN o[1] ELSE s

\* Characters matched by \s, by [.!?] and by \w
SpaceChars == {" ", "\n", "\t"}

EndChars == {".", "!", "?"}

UpperChars == {"A", "B", "T"}

WordChars == {"a", "b", "t", "0", "_"} \cup UpperChars

IsSpace(c) == c \in SpaceChars

IsEnd(c) == c \in EndChars

IsWord(c) == c \in WordChars

LowerChar(c) == CASE c = "A" -> "a"
                  [] c = "B" -> "b"
                  [] c = "T" -> "t"
                  [] OTHER   -> c

\* str.lower()
Lower(s) == [i \in 1..Len(s) |-> LowerChar(s[i])]

\* str.strip()
Strip(s) ==
    LET keep == {i \in 1..Len(s) : ~IsSpace(s[i])}
    IN  IF keep = {} THEN <<>>
        ELSE LET lo == CHOOSE i \in keep : \A j \in keep : i <= j
                 hi == CHOOSE i \in keep : \A j \in keep : j <= i
             IN  SubSeq(s, lo, hi)

\* s[:n] for n >= 0
Prefix(s, n) == SubSeq(s, 1, IF n < Len(s) THEN n ELSE Len(s))

\* The elements of a finite set of integers in increasing order: sorted(S)
SortedInts(S) ==
    [k \in 1..Cardinality(S) |->
        CHOOSE x \in S : Cardinality({y \in S : y < x}) = k - 1]

\* Last index of the run of characters in cls that starts at index i of s
RunEnd(s, i, cls) ==
    CHOOSE j \in i..Len(s) : /\ \A k \in i..j : s[k] \in cls
                             /\ j = Len(s) \/ s[j + 1] \notin cls

\* re.findall(r"\b\w+\b", text.lower()): the maximal runs of word characters
_tokenize(text) ==
    LET s      == Lower(text)
        starts == {i \in 1..Len(s) : IsWord(s[i]) /\ (i = 1 \/ ~IsWord(s[i - 1]))}
        order  == SortedInts(starts)
    IN  [k \in 1..Len(order) |-> SubSeq(s, order[k], RunEnd(s, order[k], WordChars))]

\* re.split of (?<=[.!?])\s+ : the text is cut at every run of whitespace
\* that follows one of . ! ?
RegexSplit(s) ==
    LET seps   == {i \in 2..Len(s) : IsSpace(s[i]) /\ IsEnd(s[i - 1])}
        cuts   == SortedInts(seps)
        nfrag  == Len(cuts) + 1
        from(k) == IF k = 1 THEN 1 ELSE RunEnd(s, cuts[k - 1], SpaceChars) + 1
        to(k)   == IF k = nfrag THEN Len(s) ELSE cuts[k] - 1
    IN  [k \in 1..nfrag |-> SubSeq(s, from(k), to(k))]

_split_sentences(text0) ==
    LET text == Strip(text0)
    IN  IF text = <<>> THEN <<>>
        ELSE LET frags    == RegexSplit(text)
                 nonempty == SelectSeq(frags, LAMBDA f : Strip(f) # <<>>)
             IN  [k \in 1..Len(nonempty) |-> Strip(nonempty[k])]

(***************************************************************************)
(* ai_summarizer.py                                                        *)
(***************************************************************************)
\* Counter(tokens)[t]
TokenCount(tokens, t) == Cardinality({i \in 1..Len(tokens) : tokens[i] = t})

RECURSIVE SumCounts(_, _)
\* sum(token_counts[t] for t in qs if t in token_counts)
SumCounts(tokens, qs) ==
    IF qs = {} THEN 0
    ELSE LET t == CHOOSE x \in qs : TRUE
         IN  TokenCount(tokens, t) + SumCounts(tokens, qs \ {t})

\* (variant: counts every token of the sentence, not those of the query)
SentenceScoreAllTokens(sentence, query_token_set) ==
    LET tokens == _tokenize(sentence)
    IN  IF tokens = <<>> THEN FZero
        ELSE FDiv(FFromInt(Len(tokens)), FSqrtInt(Len(tokens)))

\* The score of one sentence: overlap / math.sqrt(len(tokens)), 0.0 for a
\* sentence without tokens
SentenceScore(sentence, query_token_set) ==
    LET tokens == _tokenize(sentence)
    IN  IF tokens = <<>> THEN FZero
        ELSE FDiv(FFromInt(SumCounts(tokens, query_token_set)),
                  FSqrtInt(Len(tokens)))

\* The list of (index, score), indices from 0 as in the code
_score_sentences(sentences, query_tokens) ==
    LET query_token_set == {query_tokens[i] : i \in 1..Len(query_tokens)}
    IN  [k \in 1..Len(sentences) |->
            <<k - 1, SentenceScore(sentences[k], query_token_set)>>]

\* (variant: an ascending sort reversed, which puts the later of two equal
\* entries first)
BeforeLaterFirst(scores, i, j) == \/ FLt(scores[j][2], scores[i][2])
                                  \/ scores[i][2] = scores[j][2] /\ i > j

\* sorted(scores, key=lambda x: x[1], reverse=True); Python's sort is stable,
\* also with reverse=True: of two entries with equal keys the one that comes
\* first in scores comes first in the result.
Before(scores, i, j) == \/ FLt(scores[j][2], scores[i][2])
                        \/ scores[i][2] = scores[j][2] /\ i < j

SortByScore(scores) ==
    [r \in 1..Len(scores) |->
        scores[CHOOSE i \in 1..Len(scores) :
                  Cardinality({j \in 1..Len(scores) : Before(scores, j, i)}) = r - 1]]

\* max(raw_scores): the first maximal element
MaxScore(raw) ==
    raw[CHOOSE i \in 1..Len(raw) : \A j \in 1..Len(raw) : FLe(raw[j], raw[i])]

RECURSIVE SumScores(_, _)
\* sum(raw_scores): the first n elements added from left to right, from 0
SumScores(raw, n) ==
    IF n = 0 THEN FZero
    ELSE CHOOSE r \in {FAdd(acc, raw[n]) : acc \in {SumScores(raw, n - 1)}} : TRUE

BaselineScore == 40

\* (variant: int(50 + 100 * normalized))
ScaleScoreWide(normalized) == FToInt(FAdd(FFromInt(50), FMulInt(100, normalized)))

\* int(50 + 50 * normalized)
ScaleScore(normalized) == FToInt(FAdd(FFromInt(50), FMulInt(50, normalized)))

_compute_overall_score(scores) ==
    IF scores = <<>> THEN 0
    ELSE LET raw_scores == [k \in 1..Len(scores) |-> scores[k][2]]
             max_score  == MaxScore(raw_scores)
         IN  IF FLe(max_score, FZero) THEN BaselineScore
             ELSE LET avg_score  == FDiv(SumScores(raw_scores, Len(raw_scores)),
                                         FFromInt(Len(raw_scores)))
                      ratio      == FDiv(avg_score, max_score)
                      normalized == IF FLt(ratio, FFromInt(1)) THEN ratio
                                                               ELSE FFromInt(1)
                  IN  ScaleScore(normalized)

\* seq[:n] of Python, also for negative n
SliceTo(seq, n) ==
    IF n >= 0 THEN Prefix(seq, n)
    ELSE IF Len(seq) + n > 0 THEN SubSeq(seq, 1, Len(seq) + n)
    ELSE <<>>

Min(a, b) == IF a < b THEN a ELSE b

\* list(range(n))
Range(n) == [k \in 1..(IF n > 0 THEN n ELSE 0) |-> k - 1]

\* (variant: every sentence, whatever max_sentences)
FallbackIndicesAll(max_sentences, count) == Range(count)

\* list(range(min(max_sentences, len(sentences))))
FallbackIndices(max_sentences, count) == Range(Min(max_sentences, count))

\* (variant: the top indices left in score order)
TopIndicesByScore(sorted_by_score, max_sentences) ==
    LET top == SliceTo(sorted_by_score, max_sentences)
    IN  [k \in 1..Len(top) |-> top[k][1]]

\* sorted(idx for idx, _ in sorted_by_score[:max_sentences])
TopIndices(sorted_by_score, max_sentences) ==
    LET top == SliceTo(sorted_by_score, max_sentences)
    IN  SortedInts({top[k][1] : k \in 1..Len(top)})

RECURSIVE JoinLines(_, _)
\* "\n".join(lines[:n])
JoinLines(lines, n) ==
    IF n = 0 THEN <<>>
    ELSE IF n = 1 THEN lines[1]
    ELSE JoinLines(lines, n - 1) \o <<"\n">> \o lines[n]

TitleMax == 120

Untitled == <<"U", "n", "t", "i", "t", "l", "e", "d">>

\* The locals of summarize at its return and the dict it returns
summarize(text0, query, metadata_title, max_sentences) ==
    LET text         == Strip(text0)
        query_tokens == _tokenize(query)
        sentences    == _split_sentences(text)
        empty        == [sentences |-> <<>>, scores |-> <<>>, selected |-> <<>>,
                         title |-> OrElse(metadata_title,
                                          IF query # <<>> THEN query ELSE Untitled),
                         summary |-> <<>>, score |-> 0]
    IN  IF text = <<>> THEN empty
        ELSE IF sentences = <<>> THEN empty
        ELSE LET scores          == _score_sentences(sentences, query_tokens)
                 sorted_by_score == SortByScore(scores)
                 selected_indices ==
                     IF \A k \in 1..Len(sorted_by_score) :
                            FLe(sorted_by_score[k][2], FZero)
                     THEN FallbackIndices(max_sentences, Len(sentences))
                     ELSE TopIndices(sorted_by_score, max_sentences)
                 bullets == [k \in 1..Len(selected_indices) |->
                                <<"-", " ">> \o sentences[selected_indices[k] + 1]]
                 first   == Prefix(sentences[1], TitleMax)
             IN  [sentences |-> sentences, scores |-> scores,
                  selected |-> selected_indices,
                  title |-> OrElse(metadata_title,
                               IF first # <<>> THEN first
                               ELSE IF query # <<>> THEN query ELSE Untitled),
                  summary |-> JoinLines(bullets, Len(bullets)),
                  score |-> _compute_overall_score(sorted_by_score)]

(***************************************************************************)
(* article_parser.py                                                       *)
(* A parsed document is the sequence of its elements in document order.    *)
(* An element has a tag, the attributes the parser reads (property, name   *)
(* and rel as strings, "" when absent; content, href, lang, id and class   *)
(* as Optional[str]), its .string (None for an element without a single    *)
(* string child), and paras: the get_text(" ", strip=True) of the <p>      *)
(* elements find_all("p") returns for it (of the element itself for a      *)
(* <p>).  A paragraph text is [at |-> its place in the document,           *)
(* len |-> its length].                                                    *)
(***************************************************************************)
Element(tag) ==
    [tag |-> tag, property |-> "", name |-> "", rel |-> "",
     content |-> None, href |-> None, lang |-> None, id |-> None,
     class |-> None, string |-> None, paras |-> <<>>]

\* needle in s
Contains(s, needle) ==
    \E i \in 1..(Len(s) - Len(needle) + 1) : SubSeq(s, i, i + Len(needle) - 1) = needle

\* soup.find(...): the index of the first element in document order among the
\* matching indices, 0 for None
FindFirst(hits) ==
    IF hits = {} THEN 0 ELSE CHOOSE i \in hits : \A j \in hits : i <= j

\* a or b for two results of find (a Tag is always true)
OrFound(a, b) == IF a # 0 THEN a ELSE b

FindMetaProperty(doc, value) ==
    FindFirst({ix \in DOMAIN doc : doc[ix].tag = "meta" /\ doc[ix].property = value})

FindMetaName(doc, value) ==
    FindFirst({ix \in DOMAIN doc : doc[ix].tag = "meta" /\ doc[ix].name = value})

\* tag.get("content") and ....strip() for the element at index i, None when
\* there is no element or the content is absent or empty
ContentOf(doc, i) ==
    IF i # 0 /\ Truthy(doc[i].content) THEN Some(Strip(doc[i].content[1])) ELSE None

\* soup.title.string.strip()
TitleText(doc) ==
    LET t == FindFirst({ix \in DOMAIN doc : doc[ix].tag = "title"})
    IN  IF t # 0 /\ Truthy(doc[t].string) THEN Some(Strip(doc[t].string[1])) ELSE None

\* (variant: the name="title" meta looked up before the og:title meta)
TitleMetaNameFirst(doc) ==
    OrFound(FindMetaName(doc, "title"), FindMetaProperty(doc, "og:title"))

\* soup.find("meta", property="og:title") or soup.find("meta", attrs={"name": "title"})
TitleMeta(doc) ==
    OrFound(FindMetaProperty(doc, "og:title"), FindMetaName(doc, "title"))

ExtractTitle(doc) ==
    LET og_title == TitleMeta(doc)
    IN  IF ContentOf(doc, og_title) # None THEN ContentOf(doc, og_title)
        ELSE TitleText(doc)

AuthorWord == <<"a", "u", "t", "h", "o", "r">>

\* lambda c: c and "author" in c.lower()
ClassHasAuthor(el) == Truthy(el.class) /\ Contains(Lower(el.class[1]), AuthorWord)

\* (variant: an element of any tag with a class containing "author")
AuthorElementAnyTag(doc) ==
    OrFound(OrFound(FindMetaName(doc, "author"),
                    FindMetaProperty(doc, "article:author")),
            FindFirst({ix \in DOMAIN doc : ClassHasAuthor(doc[ix])}))

AuthorElement(doc) ==
    OrFound(OrFound(FindMetaName(doc, "author"),
                    FindMetaProperty(doc, "article:author")),
            FindFirst({ix \in DOMAIN doc : doc[ix].tag = "span" /\ ClassHasAuthor(doc[ix])}))

ExtractAuthor(doc) ==
    LET author == AuthorElement(doc)
    IN  IF author = 0 THEN None
        ELSE IF doc[author].tag = "meta" /\ Truthy(doc[author].content)
             THEN Some(Strip(doc[author].content[1]))
        ELSE IF Truthy(doc[author].string)
             THEN Some(Strip(doc[author].string[1]))
        ELSE None

_extract_metadata(doc, url) ==
    LET canonical == FindFirst({ix \in DOMAIN doc : doc[ix].tag = "link" /\ doc[ix].rel = "canonical"})
        html_tag  == FindFirst({ix \in DOMAIN doc : doc[ix].tag = "html"})
    IN  [canonicalUrl |-> IF canonical # 0 /\ Truthy(doc[canonical].href)
                          THEN doc[canonical].href ELSE Some(url),
         title        |-> ExtractTitle(doc),
         description  |-> ContentOf(doc, OrFound(FindMetaName(doc, "description"),
                                                 FindMetaProperty(doc, "og:description"))),
         image        |-> ContentOf(doc, FindMetaProperty(doc, "og:image")),
         source       |-> ContentOf(doc, OrFound(FindMetaProperty(doc, "og:site_name"),
                                                 FindMetaName(doc, "publisher"))),
         author       |-> ExtractAuthor(doc),
         keywords     |-> ContentOf(doc, FindMetaName(doc, "keywords")),
         published    |-> ContentOf(doc,
                              OrFound(OrFound(FindMetaProperty(doc, "article:published_time"),
                                              FindMetaName(doc, "pubdate")),
                                      FindMetaName(doc, "date"))),
         languageCode |-> IF html_tag # 0 /\ Truthy(doc[html_tag].lang)
                          THEN Some(Strip(doc[html_tag].lang[1])) ELSE None]

ContentWord == <<"c", "o", "n", "t", "e", "n", "t">>

\* soup.select("main, div[id*=content], div[class*=content]")
IsCandidate(el) ==
    \/ el.tag = "main"
    \/ el.tag = "div" /\ el.id # None /\ Contains(el.id[1], ContentWord)
    \/ el.tag = "div" /\ el.class # None /\ Contains(el.class[1], ContentWord)

\* element.find_all("p") for the element at index i
ParagraphsOf(doc, i) ==
    [k \in 1..Len(doc[i].paras) |-> [at |-> <<i, k>>, len |-> doc[i].paras[k]]]

RECURSIVE ParagraphsUpTo(_, _)
\* soup.find_all("p"), for the first n elements of the document
ParagraphsUpTo(doc, n) ==
    IF n = 0 THEN <<>> ELSE ParagraphsUpTo(doc, n - 1) \o ParagraphsOf(doc, n)

MinParagraphLen == 40

\* the loop of lines 121-126
Qualifying(paragraphs) == SelectSeq(paragraphs, LAMBDA t : ~(t.len < MinParagraphLen))

\* (variant: without the fallback to every <p> of the document)
PickParagraphsNoFallback(doc) ==
    LET article_tag == FindFirst({ix \in DOMAIN doc : doc[ix].tag = "article"})
        candidate   == FindFirst({ix \in DOMAIN doc : IsCandidate(doc[ix]) /\ doc[ix].paras # <<>>})
    IN  IF article_tag # 0 THEN ParagraphsOf(doc, article_tag)
        ELSE IF candidate # 0 THEN ParagraphsOf(doc, candidate)
        ELSE <<>>

\* lines 105-119: the paragraphs of the <article>; without an <article> those
\* of the first candidate that has a <p>; every <p> when that gives none
PickParagraphs(doc) ==
    LET article_tag == FindFirst({ix \in DOMAIN doc : doc[ix].tag = "article"})
        candidate   == FindFirst({ix \in DOMAIN doc : IsCandidate(doc[ix]) /\ doc[ix].paras # <<>>})
        paragraphs  == IF article_tag # 0 THEN ParagraphsOf(doc, article_tag)
                       ELSE IF candidate # 0 THEN ParagraphsOf(doc, candidate)
                       ELSE <<>>
    IN  IF paragraphs = <<>> THEN ParagraphsUpTo(doc, Len(doc)) ELSE paragraphs

\* The list texts of _extract_text, which returns "\n".join(texts).strip()
_extract_text(doc) == Qualifying(PickParagraphs(doc))

(***************************************************************************)
(* State: the arguments of one call of summarize, its locals and result;   *)
(* the document given to the parser, and the metadata and the paragraph    *)
(* texts extracted from it.                                                *)
(***************************************************************************)
VARIABLES text, query, metadata_title, max_sentences, result, pc,
          doc, metadata, texts

\* State of one run of run_scraper: the queries, the position in the loop
\* over the queries and in the loop over the urls of a query, the records,
\* the clock, the log and the output written
VARIABLES queries, qi, urls, ui, all_records, now, rpc, output, log

\* State of one call of RequestHandler.get: the handler's settings, the
\* locals, the calls of session.get and of time.sleep made so far and the
\* way the call ended
VARIABLES max_retries, backoff_factor, attempt, last_exc, gpc, response,
          calls, sleeps

pipelineVars == <<text, query, metadata_title, max_sentences, result, pc,
                  doc, metadata, texts>>

runVars == <<queries, qi, urls, ui, all_records, now, rpc, output, log>>

getVars == <<max_retries, backoff_factor, attempt, last_exc, gpc, response,
             calls, sleeps>>

vars == <<pipelineVars, runVars, getVars>>

NoResult == [sentences |-> <<>>, scores |-> <<>>, selected |-> <<>>,
             title |-> <<>>, summary |-> <<>>, score |-> 0]

NoMetadata == [canonicalUrl |-> None, title |-> None, description |-> None,
               image |-> None, source |-> None, author |-> None,
               keywords |-> None, published |-> None, languageCode |-> None]

\* No run of run_scraper is in progress
RunIdle ==
    /\ queries = <<>>
    /\ qi = 0
    /\ urls = <<>>
    /\ ui = 0
    /\ all_records = <<>>
    /\ now = 0
    /\ rpc = "idle"
    /\ output = None
    /\ log = <<>>

\* No call of RequestHandler.get is in progress
GetIdle ==
    /\ max_retries = 0
    /\ backoff_factor = FZero
    /\ attempt = 0
    /\ last_exc = None
    /\ gpc = "idle"
    /\ response = None
    /\ calls = <<>>
    /\ sleeps = <<>>

\* No call of summarize or of the extractors is in progress
PipelineIdle ==
    /\ text = <<>>
    /\ query = <<>>
    /\ metadata_title = None
    /\ max_sentences = 3
    /\ result = NoResult
    /\ pc = "idle"
    /\ doc = <<>>
    /\ metadata = NoMetadata
    /\ texts = <<>>

\* Bounds of the inputs
MaxPieces == 3

MaxLongPieces == 6

MaxN == 2

\* Pieces of text: sentences of one and two words, with and without the
\* word "a", one of them not followed by white space, a sentence without
\* words, and white space
TextPieces ==
    { <<"A", ".", " ">>,
      <<"b", ".", " ">>,
      <<"a", " ", "b", "!">>,
      <<".", " ">>,
      <<" ">> }

\* A sentence of 14 words, one of them "a", and a sentence without "a"
LongPieces ==
    { <<"a", " ", "b", " ", "b", " ", "b", " ", "b", " ", "b", " ", "b", " ",
        "b", " ", "b", " ", "b", " ", "b", " ", "b", " ", "b", " ", "b", ".", " ">>,
      <<"b", ".", " ">> }

RECURSIVE Concat(_, _)
\* the first n pieces of ps, concatenated
Concat(ps, n) == IF n = 0 THEN <<>> ELSE Concat(ps, n - 1) \o ps[n]

TextsOf(pieces, max) ==
    {Concat(ps, Len(ps)) : ps \in UNION {[1..k -> pieces] : k \in 0..max}}

Queries == { <<>>, <<"a">>, <<"A", " ", "b">> }

Titles == { None, Some(<<>>), Some(<<"T">>) }

InitSummarize ==
    /\ \/ /\ text \in TextsOf(TextPieces, MaxPieces)
          /\ query \in Queries
          /\ metadata_title \in Titles
          /\ max_sentences \in -1..MaxN
       \/ /\ text \in TextsOf(LongPieces, MaxLongPieces)
          /\ query = <<"a">>
          /\ metadata_title = None
          /\ max_sentences = 3
    /\ result = NoResult
    /\ pc = "start"
    /\ doc = <<>>
    /\ metadata = NoMetadata
    /\ texts = <<>>
    /\ RunIdle
    /\ GetIdle

\* One call of summarize
Summarize ==
    /\ pc = "start"
    /\ result' = summarize(text, query, metadata_title, max_sentences)
    /\ pc' = "done"
    /\ UNCHANGED <<text, query, metadata_title, max_sentences, doc, metadata, texts>>
    /\ UNCHANGED <<runVars, getVars>>

NextSummarize == Summarize

SpecSummarize == InitSummarize /\ [][NextSummarize]_vars

Done == pc = "done"

\* Bound of the documents
MaxElements == 3

\* Elements the metadata extractor looks at
HeadElements ==
    { [Element("title") EXCEPT !.string = Some(<<" ", "T", " ">>)],
      [Element("meta") EXCEPT !.property = "og:title", !.content = Some(<<"O", " ">>)],
      [Element("meta") EXCEPT !.property = "og:title", !.content = Some(<<>>)],
      [Element("meta") EXCEPT !.name = "title", !.content = Some(<<"N">>)],
      [Element("meta") EXCEPT !.name = "author", !.content = Some(<<"A">>)],
      [Element("meta") EXCEPT !.property = "article:author"],
      [Element("span") EXCEPT !.class = Some(<<"A", "u", "t", "h", "o", "r", "s">>),
                              !.string = Some(<<" ", "B">>)],
      [Element("span") EXCEPT !.class = Some(<<"b", "y">>), !.string = Some(<<"b">>)],
      [Element("div") EXCEPT !.class = Some(<<"a", "u", "t", "h", "o", "r">>),
                             !.string = Some(<<"a">>)] }

\* Elements the text extractor looks at: containers with their paragraphs
\* (of 39 and of 40 characters) and paragraphs outside of any container
BodyElements ==
    { [Element("article") EXCEPT !.paras = <<39>>],
      [Element("article") EXCEPT !.paras = <<40, 39>>],
      [Element("article") EXCEPT !.paras = <<>>],
      [Element("main") EXCEPT !.paras = <<>>],
      [Element("div") EXCEPT !.id = Some(<<"c", "o", "n", "t", "e", "n", "t", "s">>),
                             !.paras = <<40>>],
      [Element("div") EXCEPT !.class = Some(<<"c", "o", "n", "t", "e", "n", "t">>),
                             !.paras = <<39>>],
      [Element("p") EXCEPT !.paras = <<40>>],
      [Element("p") EXCEPT !.paras = <<39>>] }

DocsOf(elements) == UNION {[1..k -> elements] : k \in 0..MaxElements}

Url == <<"u">>

InitParse(elements) ==
    /\ doc \in DocsOf(elements)
    /\ metadata = NoMetadata
    /\ texts = <<>>
    /\ pc = "start"
    /\ text = <<>>
    /\ query = <<>>
    /\ metadata_title = None
    /\ max_sentences = 3
    /\ result = NoResult
    /\ RunIdle
    /\ GetIdle

InitMetadata == InitParse(HeadElements)

InitText == InitParse(BodyElements)

\* One call of _extract_metadata
ExtractMetadata ==
    /\ pc = "start"
    /\ metadata' = _extract_metadata(doc, Url)
    /\ pc' = "done"
    /\ UNCHANGED <<text, query, metadata_title, max_sentences, result, doc, texts>>
    /\ UNCHANGED <<runVars, getVars>>

\* One call of _extract_text
ExtractText ==
    /\ pc = "start"
    /\ texts' = _extract_text(doc)
    /\ pc' = "done"
    /\ UNCHANGED <<text, query, metadata_title, max_sentences, result, doc, metadata>>
    /\ UNCHANGED <<runVars, getVars>>

NextMetadata == ExtractMetadata

NextText == ExtractText

SpecMetadata == InitMetadata /\ [][NextMetadata]_vars

SpecText == InitText /\ [][NextText]_vars

(***************************************************************************)
(* run_scraper (src/src/main.py): the loop over the queries, the loop over *)
(* the urls of a query, and the freshness filter.                          *)
(* The characters of a timestamp stand for its parts: a date "D1" (day 1), *)
(* the separator "T", a time of day "H05" (05:00:00), and a zone "Z" or    *)
(* "+00:00".  Datetimes are counted in hours.                              *)
(***************************************************************************)
DayOf == ("D0" :> 0) @@ ("D1" :> 1) @@ ("D2" :> 2)

HourOf == ("H00" :> 0) @@ ("H05" :> 5)

OffsetOf == ("+00:00" :> 0) @@ ("+02:00" :> 2)

\* cleaned.replace("Z", "+00:00")
ReplaceZ(s) == [i \in 1..Len(s) |-> IF s[i] = "Z" THEN "+00:00" ELSE s[i]]

\* datetime.strptime(cleaned, fmt) for the three formats tried in turn; a
\* datetime is its hours since day 0 and whether it carries a zone
parse_iso8601(value) ==
    IF value = <<>> THEN None
    ELSE LET cleaned == ReplaceZ(Strip(value))
         IN  IF /\ Len(cleaned) = 4
                /\ cleaned[1] \in DOMAIN DayOf /\ cleaned[2] = "T"
                /\ cleaned[3] \in DOMAIN HourOf /\ cleaned[4] \in DOMAIN OffsetOf
             THEN Some([hours  |-> 24 * DayOf[cleaned[1]] + HourOf[cleaned[3]]
                                   - OffsetOf[cleaned[4]],
                        tzinfo |-> TRUE])
             ELSE IF /\ Len(cleaned) = 3
                     /\ cleaned[1] \in DOMAIN DayOf /\ cleaned[2] = "T"
                     /\ cleaned[3] \in DOMAIN HourOf
             THEN Some([hours  |-> 24 * DayOf[cleaned[1]] + HourOf[cleaned[3]],
                        tzinfo |-> FALSE])
             ELSE IF Len(cleaned) = 1 /\ cleaned[1] \in DOMAIN DayOf
             THEN Some([hours |-> 24 * DayOf[cleaned[1]], tzinfo |-> FALSE])
             ELSE None

\* rec.get("metadata", {}).get("published")
PublishedRaw(rec) == rec.metadata.published

\* "if not max_age_hours": None and 0 switch the filter off
FilterOff(max_age_hours) == max_age_hours = None \/ max_age_hours = Some(0)

\* The comparison dt >= cutoff is made for rec: it has a timestamp that parses
Compared(rec) ==
    /\ Truthy(PublishedRaw(rec))
    /\ parse_iso8601(PublishedRaw(rec)[1]) # None

\* dt >= cutoff raises TypeError: dt carries a zone and cutoff, made from
\* datetime.utcnow(), carries none
CompareRaises(rec) ==
    Compared(rec) /\ parse_iso8601(PublishedRaw(rec)[1])[1].tzinfo

\* The record is appended to filtered
Kept(rec, cutoff) ==
    Compared(rec) => parse_iso8601(PublishedRaw(rec)[1])[1].hours >= cutoff

\* filter_by_freshness, at the time utcnow: the list returned, or the
\* exception raised
filter_by_freshness(records, max_age_hours, utcnow) ==
    IF FilterOff(max_age_hours)
    THEN [raised |-> FALSE, records |-> records]
    ELSE LET cutoff == utcnow - max_age_hours[1]
         IN  IF \E i \in 1..Len(records) : CompareRaises(records[i])
             THEN [raised |-> TRUE, records |-> <<>>]
             ELSE [raised |-> FALSE,
                   records |-> SelectSeq(records, LAMBDA rec : Kept(rec, cutoff))]

\* default_settings of load_settings_example
settings == [max_articles |-> 10, hours_back |-> Some(24)]

\* d.get(key, default) of a dict
Get(d, key, default) == IF key \in DOMAIN d THEN d[key] ELSE default

\* The web: what parse_article meets at each url: a failed request, an
\* exception while parsing, or a page.  A page is the elements
\* _extract_metadata looks at and the text _extract_text returns: without a
\* timestamp ("n"), with one that does not parse ("g"), with one without a
\* zone ("o", day 1, 00:00) and with one with a zone ("z").
PageText == <<"B", " ", "c", ".", "\n", "d", ".">>

PublishedMeta(content) ==
    [Element("meta") EXCEPT !.property = "article:published_time",
                            !.content = Some(content)]

Web ==
    { [kind |-> "RequestError", doc |-> <<>>, text |-> <<>>, url |-> <<"e">>],
      [kind |-> "Exception", doc |-> <<>>, text |-> <<>>, url |-> <<"x">>],
      [kind |-> "page", doc |-> <<>>, text |-> <<>>, url |-> <<"n">>],
      [kind |-> "page", text |-> PageText, url |-> <<"g">>,
       doc |-> <<PublishedMeta(<<"D1", " ", "H05">>)>>],
      [kind |-> "page", text |-> PageText, url |-> <<"o">>,
       doc |-> <<PublishedMeta(<<" ", "D1", "T", "H00">>)>>],
      [kind |-> "page", text |-> PageText, url |-> <<"z">>,
       doc |-> <<PublishedMeta(<<"D2", "T", "H05", "Z">>)>>] }

Urls == {site.url : site \in Web}

SiteOf(url) == CHOOSE site \in Web : site.url = url

\* text.split("\n", 1)[0]
FirstLine(s) ==
    IF \E i \in 1..Len(s) : s[i] = "\n"
    THEN SubSeq(s, 1, (CHOOSE i \in 1..Len(s) : s[i] = "\n" /\ \A j \in 1..(i - 1) : s[j] # "\n") - 1)
    ELSE s

\* parse_article for a page fetched with status 200 at the time utcnow
parse_article(url, utcnow) ==
    LET site      == SiteOf(url)
        meta      == _extract_metadata(site.doc, url)
        body      == site.text
        firstLine == FirstLine(body)
    IN  [url      |-> url,
         crawl    |-> [loadedUrl |-> url, loadedTime |-> utcnow, httpStatusCode |-> 200],
         metadata |-> meta,
         title    |-> IF Truthy(meta.title) THEN meta.title[1]
                      ELSE IF firstLine # <<>> THEN Prefix(firstLine, TitleMax)
                      ELSE url,
         text     |-> body]

\* build_article_record for a parsed article and its summary
ArticleRecord(article, ai_summary) ==
    [url       |-> article.url,
     crawl     |-> article.crawl,
     aiSummary |-> [title |-> ai_summary.title, summary |-> ai_summary.summary,
                    score |-> ai_summary.score],
     metadata  |-> article.metadata,
     title     |-> IF article.title # <<>> THEN article.title ELSE ai_summary.title,
     text      |-> article.text]

\* summarize and build_article_record for a parsed article
build_article_record(article, q) ==
    CHOOSE record \in {ArticleRecord(article, ai_summary) :
                          ai_summary \in {summarize(article.text, q, Some(article.title), 3)}} :
        TRUE

\* Bounds of a run: the queries, the urls its searches return in all
MaxQueries == 2

MaxFetches == 2

\* The time of the run: day 3, 00:00.  The clock counts hours, and a run
\* does not last into the next one.
Now0 == 72

\* The entries of the input file: without hours_back, with null and with 48
QueryInputs ==
    { [query |-> <<"a">>],
      [query |-> <<"a">>, hours_back |-> None],
      [query |-> <<"a">>, hours_back |-> Some(48)] }

SeqsUpTo(S, n) == UNION {[1..k -> S] : k \in 0..n}

\* A line of the log, written at the time "at"
LogLine(event, url, hours, before, after) ==
    [event |-> event, at |-> now, url |-> url, hours |-> hours,
     before |-> before, after |-> after]

InitRun ==
    /\ queries \in SeqsUpTo(QueryInputs, MaxQueries)
    /\ qi = 0
    /\ urls = <<>>
    /\ ui = 0
    /\ all_records = <<>>
    /\ now = Now0
    /\ rpc = "query"
    /\ output = None
    /\ log = <<>>
    /\ PipelineIdle
    /\ GetIdle

\* The query of the current pass of "for q in queries"
query_text == Get(queries[qi], "query", <<>>)

hours_back == Get(queries[qi], "hours_back", settings.hours_back)

\* The urls fetched so far in the run
Fetched == Cardinality({i \in 1..Len(log) : log[i].event = "fetch"})

\* The next pass of "for q in queries" starts: search_news_duckduckgo returns
\* at most max_articles urls (none when the search request fails)
StartQuery ==
    /\ rpc = "query"
    /\ qi < Len(queries)
    /\ \E found \in SeqsUpTo(Urls, Min(Get(queries[qi + 1], "max_articles",
                                           settings.max_articles),
                                       MaxFetches - Fetched)) :
          urls' = found
    /\ qi' = qi + 1
    /\ ui' = 0
    /\ rpc' = "article"
    /\ log' = Append(log, LogLine("query", <<>>, None, 0, 0))
    /\ UNCHANGED <<queries, all_records, now, output>>
    /\ UNCHANGED <<pipelineVars, getVars>>

\* One pass of "for url in urls" in which parse_article raises RequestError
SkipRequestError ==
    /\ rpc = "article"
    /\ ui < Len(urls)
    /\ SiteOf(urls[ui + 1]).kind = "RequestError"
    /\ ui' = ui + 1
    /\ log' = log \o << LogLine("fetch", urls[ui + 1], None, 0, 0),
                        LogLine("skip", urls[ui + 1], None, 0, 0) >>
    /\ UNCHANGED <<queries, qi, urls, all_records, now, rpc, output>>
    /\ UNCHANGED <<pipelineVars, getVars>>

\* (variant: an exception other than RequestError is not caught and ends the run)
SkipExceptionAborts ==
    /\ rpc = "article"
    /\ ui < Len(urls)
    /\ SiteOf(urls[ui + 1]).kind = "Exception"
    /\ rpc' = "crashed"
    /\ log' = Append(log, LogLine("fetch", urls[ui + 1], None, 0, 0))
    /\ UNCHANGED <<queries, qi, urls, ui, all_records, now, output>>
    /\ UNCHANGED <<pipelineVars, getVars>>

\* One pass of "for url in urls" in which parse_article raises another exception
SkipException ==
    /\ rpc = "article"
    /\ ui < Len(urls)
    /\ SiteOf(urls[ui + 1]).kind = "Exception"
    /\ ui' = ui + 1
    /\ log' = log \o << LogLine("fetch", urls[ui + 1], None, 0, 0),
                        LogLine("unexpected", urls[ui + 1], None, 0, 0) >>
    /\ UNCHANGED <<queries, qi, urls, all_records, now, rpc, output>>
    /\ UNCHANGED <<pipelineVars, getVars>>

\* One pass of "for url in urls" in which parse_article returns an article
AppendRecord ==
    /\ rpc = "article"
    /\ ui < Len(urls)
    /\ SiteOf(urls[ui + 1]).kind = "page"
    /\ \E article \in {parse_article(urls[ui + 1], now)} :
          all_records' = Append(all_records, build_article_record(article, query_text))
    /\ ui' = ui + 1
    /\ log' = Append(log, LogLine("fetch", urls[ui + 1], None, 0, 0))
    /\ UNCHANGED <<queries, qi, urls, now, rpc, output>>
    /\ UNCHANGED <<pipelineVars, getVars>>

\* The loop over the urls is over and filter_by_freshness returns
Filter ==
    /\ rpc = "article"
    /\ ui = Len(urls)
    /\ LET filtered == filter_by_freshness(all_records, hours_back, now)
       IN  /\ ~filtered.raised
           /\ all_records' = filtered.records
           /\ log' = IF FilterOff(hours_back) THEN log
                     ELSE Append(log, LogLine("filter", <<>>, hours_back,
                                              Len(all_records), Len(filtered.records)))
    /\ rpc' = "query"
    /\ UNCHANGED <<queries, qi, urls, ui, now, output>>
    /\ UNCHANGED <<pipelineVars, getVars>>

\* The loop over the urls is over and filter_by_freshness raises TypeError,
\* which nothing in run_scraper catches
FilterTypeError ==
    /\ rpc = "article"
    /\ ui = Len(urls)
    /\ filter_by_freshness(all_records, hours_back, now).raised
    /\ rpc' = "crashed"
    /\ UNCHANGED <<queries, qi, urls, ui, all_records, now, output, log>>
    /\ UNCHANGED <<pipelineVars, getVars>>

\* write_json after the last query
WriteJson ==
    /\ rpc = "query"
    /\ qi = Len(queries)
    /\ output' = Some(all_records)
    /\ rpc' = "done"
    /\ UNCHANGED <<queries, qi, urls, ui, all_records, now, log>>
    /\ UNCHANGED <<pipelineVars, getVars>>

NextRun ==
    \/ StartQuery
    \/ SkipRequestError
    \/ SkipException
    \/ AppendRecord
    \/ Filter
    \/ FilterTypeError
    \/ WriteJson

SpecRun == InitRun /\ [][NextRun]_vars

(***************************************************************************)
(* RequestHandler.get (src/src/utils/request_handler.py): one pass of the  *)
(* while loop is one action, the call of time.sleep at its end included.   *)
(***************************************************************************)
\* Bound of max_retries (run_scraper builds its handler with 3)
MaxRetries == 3

\* The status codes of the responses
StatusCodes == {199, 200, 399, 400, 500}

\* The values of backoff_factor: 0.0, 0.5 and 1.0
BackoffFactors == {FZero, FDiv(FFromInt(1), FFromInt(2)), FFromInt(1)}

\* "if 200 <= response.status_code < 400"
IsSuccess(status_code) == 200 <= status_code /\ status_code < 400

\* (variant: one more pass of the loop)
MoreAttemptsOneMore == attempt <= max_retries + 1

\* "while attempt <= self.max_retries"
MoreAttempts == attempt <= max_retries

\* "if attempt <= self.max_retries", for the attempt just made
SleepNext(made) == made <= max_retries

\* self.backoff_factor * (2 ** (attempt - 1))
SleepFor(made) == FMulInt(2 ^ (made - 1), backoff_factor)

\* What a failed pass leaves: attempt, last_exc, and the sleep when another
\* pass follows
FailedPass(call, exc) ==
    /\ attempt' = attempt + 1
    /\ calls' = Append(calls, call)
    /\ last_exc' = Some(exc)
    /\ sleeps' = IF SleepNext(attempt + 1) THEN Append(sleeps, SleepFor(attempt + 1))
                 ELSE sleeps
    /\ UNCHANGED <<max_retries, backoff_factor, gpc, response>>

InitGet ==
    /\ max_retries \in -1..MaxRetries
    /\ backoff_factor \in BackoffFactors
    /\ attempt = 0
    /\ last_exc = None
    /\ gpc = "loop"
    /\ response = None
    /\ calls = <<>>
    /\ sleeps = <<>>
    /\ PipelineIdle
    /\ RunIdle

\* A pass in which session.get returns a response with a success status:
\* get returns it
GetSuccess ==
    /\ gpc = "loop"
    /\ MoreAttempts
    /\ \E status_code \in StatusCodes :
          /\ IsSuccess(status_code)
          /\ calls' = Append(calls, [kind |-> "response", status_code |-> status_code])
          /\ response' = Some([status_code |-> status_code])
    /\ attempt' = attempt + 1
    /\ gpc' = "returned"
    /\ UNCHANGED <<max_retries, backoff_factor, last_exc, sleeps>>
    /\ UNCHANGED <<pipelineVars, runVars>>

\* A pass in which session.get returns a response with another status
GetBadStatus ==
    /\ gpc = "loop"
    /\ MoreAttempts
    /\ \E status_code \in StatusCodes :
          /\ ~IsSuccess(status_code)
          /\ FailedPass([kind |-> "response", status_code |-> status_code],
                        [kind |-> "RequestError", status_code |-> status_code])
    /\ UNCHANGED <<pipelineVars, runVars>>

\* A pass in which session.get raises requests.RequestException
GetRequestException ==
    /\ gpc = "loop"
    /\ MoreAttempts
    /\ FailedPass([kind |-> "RequestException", status_code |-> 0],
                  [kind |-> "RequestException", status_code |-> 0])
    /\ UNCHANGED <<pipelineVars, runVars>>

\* A pass in which session.get raises an exception that is not a
\* RequestException: no except clause matches and it leaves get
GetOtherException ==
    /\ gpc = "loop"
    /\ MoreAttempts
    /\ attempt' = attempt + 1
    /\ calls' = Append(calls, [kind |-> "Exception", status_code |-> 0])
    /\ gpc' = "propagated"
    /\ UNCHANGED <<max_retries, backoff_factor, last_exc, response, sleeps>>
    /\ UNCHANGED <<pipelineVars, runVars>>

\* The loop is over: raise RequestError
GetRaise ==
    /\ gpc = "loop"
    /\ ~MoreAttempts
    /\ gpc' = "raised"
    /\ UNCHANGED <<max_retries, backoff_factor, attempt, last_exc, response, calls, sleeps>>
    /\ UNCHANGED <<pipelineVars, runVars>>

NextGet ==
    \/ GetSuccess
    \/ GetBadStatus
    \/ GetRequestException
    \/ GetOtherException
    \/ GetRaise

SpecGet == InitGet /\ [][NextGet]_vars

\* Each call of session.get ends (it is made with a timeout) and each sleep
\* ends, so a pass that can be made is made
FairSpecGet == SpecGet /\ WF_vars(NextGet)

(***************************************************************************)
(* Properties of summarize                                                 *)
(***************************************************************************)
Count == Len(result.sentences)

RawScore(i) == result.scores[i + 1][2]

SelectedSet == {result.selected[k] : k \in 1..Len(result.selected)}

AllScoresZero == \A i \in 0..Count - 1 : FLe(RawScore(i), FZero)

SomeScorePositive == \E i \in 0..Count - 1 : FLt(FZero, RawScore(i))

\* "- " + sentence for the sentences with the indices idx, joined by "\n"
Rendered(idx) ==
    JoinLines([k \in 1..Len(idx) |-> <<"-", " ">> \o result.sentences[idx[k] + 1]],
              Len(idx))

\* C1: whatever the text, the query, the title and the sentence count, the
\* score summarize returns is an integer from 0 to 100.
C1_ScoreInRange == Done => result.score \in 0..100

C1_Witness == Done /\ result.score > 50 /\ result.score < 100

\* C2: the bullets of a summary are in document order: the indices of the
\* rendered sentences increase strictly from bullet to bullet (so no sentence
\* is rendered twice), whatever the scores, and the summary is the rendering
\* of exactly these sentences.
C2_DocumentOrder ==
    Done => /\ \A k \in 1..Len(result.selected) - 1 :
                   result.selected[k] < result.selected[k + 1]
            /\ SelectedSet \subseteq 0..Count - 1
            /\ result.summary = Rendered(result.selected)

\* two bullets whose order by score is the reverse of the document order
C2_Witness ==
    /\ Done
    /\ \E k \in 1..Len(result.selected) - 1 :
          /\ FLt(FZero, RawScore(result.selected[k]))
          /\ FLt(RawScore(result.selected[k]), RawScore(result.selected[k + 1]))

\* C3: when the text has a sentence and no sentence has a score above 0,
\* summarize with N >= 0 renders exactly the first min(N, count) sentences in
\* document order and returns the score 40.
C3_Fallback ==
    (Done /\ Count >= 1 /\ AllScoresZero /\ max_sentences >= 0) =>
        /\ result.selected = [k \in 1..Min(max_sentences, Count) |-> k - 1]
        /\ result.summary = Rendered([k \in 1..Min(max_sentences, Count) |-> k - 1])
        /\ result.score = 40

\* a non-empty query that matches no sentence, and more sentences than N
C3_Witness ==
    /\ Done /\ Count >= 1 /\ AllScoresZero
    /\ query # <<>> /\ max_sentences >= 1 /\ Count > max_sentences
    /\ Len(result.selected) = max_sentences

\* C4 as stated: for every text, the empty and the white-space text included,
\* summarize(text, query="") returns the score 40.
C4_Original == (Done /\ query = <<>>) => result.score = 40

\* C4 as amended: summarize(text, query="") returns the score 40 for every
\* text with at least one sentence, and 0 for the text that is empty after
\* trimming.
C4_EmptyQuery ==
    (Done /\ query = <<>>) =>
        result.score = (IF Strip(text) = <<>> THEN 0 ELSE 40)

\* an empty query on a text whose sentences have words
C4_Witness ==
    /\ Done /\ query = <<>> /\ Count >= 2
    /\ \A k \in 1..Count : _tokenize(result.sentences[k]) # <<>>
    /\ result.score = 40

\* C5: for a text that is empty after trimming (or without sentences)
\* summarize returns the summary "" and the score 0, with the given title if
\* it is non-empty, else the query if it is non-empty, else "Untitled".
C5_EmptyText ==
    (Done /\ (Strip(text) = <<>> \/ _split_sentences(text) = <<>>)) =>
        /\ result.summary = <<>>
        /\ result.score = 0
        /\ result.title =
              (IF metadata_title # None /\ metadata_title[1] # <<>>
               THEN metadata_title[1]
               ELSE IF query # <<>> THEN query
               ELSE <<"U", "n", "t", "i", "t", "l", "e", "d">>)

\* a white-space text with an empty title: the query becomes the title
C5_Witness ==
    /\ Done /\ text # <<>> /\ Strip(text) = <<>>
    /\ metadata_title = Some(<<>>) /\ query # <<>>
    /\ result.title = query

\* C6: when some sentence has a score above 0 and N >= 1, exactly
\* min(N, count) sentences are selected, and every selected sentence i comes
\* before every other sentence j in the stable descending order: its score is
\* larger, or equal with i < j.
C6_TopN ==
    (Done /\ SomeScorePositive /\ max_sentences >= 1) =>
        /\ Cardinality(SelectedSet) = Min(max_sentences, Count)
        /\ Len(result.selected) = Min(max_sentences, Count)
        /\ \A i \in SelectedSet : \A j \in (0..Count - 1) \ SelectedSet :
              \/ FLt(RawScore(j), RawScore(i))
              \/ RawScore(i) = RawScore(j) /\ i < j

\* a tie between a selected and an unselected sentence with a positive score
C6_Witness ==
    /\ Done /\ SomeScorePositive /\ max_sentences >= 1
    /\ \E i \in SelectedSet : \E j \in (0..Count - 1) \ SelectedSet :
          RawScore(i) = RawScore(j) /\ FLt(FZero, RawScore(i))

\* C7: when the largest score is above 0 the overall score is
\* floor(50 + 50 * min(1, avg / max)) over all sentences; it lies in [50, 100]
\* and it is 100 exactly when all sentences have the same score.  Where the
\* scores take one positive value x, in j of the sentences, and 0 in the
\* others, avg / max is j / count and the formula is 50 + floor(50 * j / count).
C7_OverallScore ==
    (Done /\ SomeScorePositive) =>
        LET pos == {i \in 0..Count - 1 : FLt(FZero, RawScore(i))}
        IN  /\ result.score \in 50..100
            /\ result.score = 100 <=> \A i, j \in 0..Count - 1 : RawScore(i) = RawScore(j)
            /\ (\A i, j \in pos : RawScore(i) = RawScore(j)) =>
                  result.score = 50 + ((50 * Cardinality(pos)) \div Count)

(***************************************************************************)
(* Properties of _extract_metadata and _extract_text                       *)
(***************************************************************************)
\* first index of an element that satisfies Is, 0 when there is none
FirstWhere(Is(_)) ==
    IF \E i \in 1..Len(doc) : Is(doc[i])
    THEN CHOOSE i \in 1..Len(doc) : Is(doc[i]) /\ \A j \in 1..(i - 1) : ~Is(doc[j])
    ELSE 0

HasContent(i) == i # 0 /\ doc[i].content # None /\ doc[i].content[1] # <<>>

HasString(i) == i # 0 /\ doc[i].string # None /\ doc[i].string[1] # <<>>

OgTitleMeta == FirstWhere(LAMBDA el : el.tag = "meta" /\ el.property = "og:title")

NameTitleMeta == FirstWhere(LAMBDA el : el.tag = "meta" /\ el.name = "title")

TitleElement == FirstWhere(LAMBDA el : el.tag = "title")

TrimmedTitleElement ==
    IF HasString(TitleElement) THEN Some(Strip(doc[TitleElement].string[1])) ELSE None

\* C8 as stated: with an og:title meta and a name="title" meta, both with
\* content, the title is the name="title" content; with only og:title it is
\* the og:title content; with neither it is the trimmed <title> text, or null.
C8_Original ==
    Done =>
        /\ (HasContent(OgTitleMeta) /\ HasContent(NameTitleMeta)) =>
              metadata.title = Some(Strip(doc[NameTitleMeta].content[1]))
        /\ (HasContent(OgTitleMeta) /\ NameTitleMeta = 0) =>
              metadata.title = Some(Strip(doc[OgTitleMeta].content[1]))
        /\ (OgTitleMeta = 0 /\ NameTitleMeta = 0) =>
              metadata.title = TrimmedTitleElement

\* C8 as amended: the og:title meta comes before the name="title" meta.  With
\* an og:title meta that has content the title is its trimmed content, also
\* when a name="title" meta has content; the name="title" meta is used only in
\* a document without og:title meta; with neither (or with an og:title meta
\* without content) the title is the trimmed <title> text, or null.
C8_TitleChain ==
    Done =>
        /\ HasContent(OgTitleMeta) =>
              metadata.title = Some(Strip(doc[OgTitleMeta].content[1]))
        /\ (OgTitleMeta = 0 /\ HasContent(NameTitleMeta)) =>
              metadata.title = Some(Strip(doc[NameTitleMeta].content[1]))
        /\ (OgTitleMeta = 0 /\ NameTitleMeta = 0) =>
              metadata.title = TrimmedTitleElement
        /\ (OgTitleMeta # 0 /\ ~HasContent(OgTitleMeta)) =>
              metadata.title = TrimmedTitleElement

\* a <title>, an og:title meta and a name="title" meta with different texts
C8_Witness ==
    /\ Done
    /\ HasString(TitleElement) /\ HasContent(OgTitleMeta) /\ HasContent(NameTitleMeta)
    /\ Strip(doc[OgTitleMeta].content[1]) # Strip(doc[NameTitleMeta].content[1])
    /\ metadata.title = Some(Strip(doc[OgTitleMeta].content[1]))

\* the paragraph texts of the element at index i, in document order
TextsAt(i) == [k \in 1..Len(doc[i].paras) |-> [at |-> <<i, k>>, len |-> doc[i].paras[k]]]

RECURSIVE TextsUpTo(_)
TextsUpTo(n) == IF n = 0 THEN <<>> ELSE TextsUpTo(n - 1) \o TextsAt(n)

AllTexts == TextsUpTo(Len(doc))

\* the texts of 40 characters or more
LongEnough(ts) == SelectSeq(ts, LAMBDA t : t.len >= 40)

IsContainer(el) ==
    \/ el.tag = "main"
    \/ el.tag = "div" /\ el.id # None /\ Contains(el.id[1], ContentWord)
    \/ el.tag = "div" /\ el.class # None /\ Contains(el.class[1], ContentWord)

FirstArticle == FirstWhere(LAMBDA el : el.tag = "article")

\* C9 as stated: the first of (1) the first <article>, (2) the first
\* container with a qualifying paragraph, (3) every <p>, that yields a
\* qualifying paragraph gives the result; the result is empty only when no
\* <p> of the document qualifies.
C9_Original ==
    Done =>
        LET container == FirstWhere(LAMBDA el : IsContainer(el)
                                       /\ \E k \in 1..Len(el.paras) : el.paras[k] >= 40)
        IN  /\ texts =
                 (IF FirstArticle # 0 /\ LongEnough(TextsAt(FirstArticle)) # <<>>
                  THEN LongEnough(TextsAt(FirstArticle))
                  ELSE IF container # 0 THEN LongEnough(TextsAt(container))
                  ELSE LongEnough(AllTexts))
            /\ texts = <<>> => LongEnough(AllTexts) = <<>>

\* C9 as amended: the strategy is chosen by the presence of <p> elements, not
\* of qualifying ones.  With an <article> that has a <p> the result is the
\* qualifying paragraphs of the first <article>; without any <article>, those
\* of the first container that has a <p>; otherwise (an <article> without <p>,
\* or no <article> and no container with a <p>) those of every <p> of the
\* document.  An <article> or container whose paragraphs are all too short is
\* not skipped: the result is then empty.
C9_Strategy ==
    Done =>
        LET container == FirstWhere(LAMBDA el : IsContainer(el) /\ Len(el.paras) >= 1)
        IN  /\ (FirstArticle # 0 /\ Len(doc[FirstArticle].paras) >= 1) =>
                  texts = LongEnough(TextsAt(FirstArticle))
            /\ (FirstArticle = 0 /\ container # 0) =>
                  texts = LongEnough(TextsAt(container))
            /\ (FirstArticle # 0 /\ Len(doc[FirstArticle].paras) = 0) =>
                  texts = LongEnough(AllTexts)
            /\ (FirstArticle = 0 /\ container = 0) =>
                  texts = LongEnough(AllTexts)

\* an <article> with paragraphs that are all too short, a qualifying
\* paragraph outside of it, and an empty result
C9_Witness ==
    /\ Done
    /\ FirstArticle # 0 /\ Len(doc[FirstArticle].paras) >= 1
    /\ LongEnough(TextsAt(FirstArticle)) = <<>>
    /\ LongEnough(AllTexts) # <<>>
    /\ texts = <<>>

NameAuthorMeta == FirstWhere(LAMBDA el : el.tag = "meta" /\ el.name = "author")

ArticleAuthorMeta ==
    FirstWhere(LAMBDA el : el.tag = "meta" /\ el.property = "article:author")

HasAuthorClass(el) == el.class # None /\ Contains(Lower(el.class[1]), AuthorWord)

AuthorClassElement == FirstWhere(LAMBDA el : HasAuthorClass(el))

AuthorClassSpan == FirstWhere(LAMBDA el : el.tag = "span" /\ HasAuthorClass(el))

\* C10 as stated: the author is the name="author" meta, else the
\* article:author meta, else the first element of any tag whose class contains
\* "author": without author meta tags, an element (a div, say) with such a
\* class and a text gives its trimmed text as the author.
C10_Original ==
    Done =>
        /\ HasContent(NameAuthorMeta) =>
              metadata.author = Some(Strip(doc[NameAuthorMeta].content[1]))
        /\ (NameAuthorMeta = 0 /\ HasContent(ArticleAuthorMeta)) =>
              metadata.author = Some(Strip(doc[ArticleAuthorMeta].content[1]))
        /\ (NameAuthorMeta = 0 /\ ArticleAuthorMeta = 0 /\ HasString(AuthorClassElement)) =>
              metadata.author = Some(Strip(doc[AuthorClassElement].string[1]))

\* C10 as amended: the third link of the chain is the first <span> whose
\* class contains "author" (in any case); elements of other tags are not
\* consulted.  Without author meta tags, such a span with a text gives its
\* trimmed text; without author meta tags and without such a span the author
\* is null, also when a div or an a has such a class and a text.
C10_AuthorChain ==
    Done =>
        /\ HasContent(NameAuthorMeta) =>
              metadata.author = Some(Strip(doc[NameAuthorMeta].content[1]))
        /\ (NameAuthorMeta = 0 /\ HasContent(ArticleAuthorMeta)) =>
              metadata.author = Some(Strip(doc[ArticleAuthorMeta].content[1]))
        /\ (NameAuthorMeta = 0 /\ ArticleAuthorMeta = 0 /\ HasString(AuthorClassSpan)) =>
              metadata.author = Some(Strip(doc[AuthorClassSpan].string[1]))
        /\ (NameAuthorMeta = 0 /\ ArticleAuthorMeta = 0 /\ AuthorClassSpan = 0) =>
              metadata.author = None

\* no author meta, no span with the class, a div with the class and a text
C10_Witness ==
    /\ Done
    /\ NameAuthorMeta = 0 /\ ArticleAuthorMeta = 0 /\ AuthorClassSpan = 0
    /\ HasString(AuthorClassElement) /\ doc[AuthorClassElement].tag = "div"
    /\ metadata.author = None

(***************************************************************************)
(* Properties of run_scraper                                               *)
(***************************************************************************)
\* parse_article fails at the url
ParseFails(url) == SiteOf(url).kind # "page"

\* The position in the log of the "query" line of the current pass
PassStart ==
    IF \E i \in 1..Len(log) : log[i].event = "query"
    THEN CHOOSE i \in 1..Len(log) :
            log[i].event = "query" /\ \A j \in (i + 1)..Len(log) : log[j].event # "query"
    ELSE 0

\* The urls parse_article was called with in the current pass, in order
FetchedInPass ==
    LET lines == SelectSeq(SubSeq(log, PassStart + 1, Len(log)),
                           LAMBDA line : line.event = "fetch")
    IN  [i \in 1..Len(lines) |-> lines[i].url]

\* The urls of us at which parse_article succeeds, in order
ParsedOf(us) == SelectSeq(us, LAMBDA u : ~ParseFails(u))

UrlsOf(records) == [i \in 1..Len(records) |-> records[i].url]

LastRecords(k) == SubSeq(all_records, Len(all_records) - k + 1, Len(all_records))

\* In the loop over the urls, the urls before the position have each been
\* attempted once, in order, and the records of those that parsed are the
\* last records of the list, in order
C11_LoopState ==
    rpc = "article" =>
        /\ ui <= Len(urls)
        /\ FetchedInPass = SubSeq(urls, 1, ui)
        /\ LET parsed == ParsedOf(SubSeq(urls, 1, ui))
           IN  /\ Len(all_records) >= Len(parsed)
               /\ UrlsOf(LastRecords(Len(parsed))) = parsed

\* A pass of the loop over the urls goes on to the next url; it appends one
\* record, of the url, when parse_article succeeds and leaves the records as
\* they are when it fails
C11_LoopStep ==
    (rpc = "article" /\ ui < Len(urls)) =>
        /\ rpc' = "article"
        /\ urls' = urls
        /\ ui' = ui + 1
        /\ IF ParseFails(urls[ui + 1])
           THEN all_records' = all_records
           ELSE /\ Len(all_records') = Len(all_records) + 1
                /\ SubSeq(all_records', 1, Len(all_records)) = all_records
                /\ all_records'[Len(all_records')].url = urls[ui + 1]

\* C11: the loop over the urls of a query skips each url whose parse_article
\* fails and continues with the next one: every url is attempted exactly once,
\* exactly one record is appended for each url whose parse_article succeeded,
\* in url order, and a failure never ends the run or removes a record.
C11_SkipAndContinue == [](C11_LoopState) /\ [][C11_LoopStep]_vars

\* The loop is over for two urls of which the first failed: the record of
\* the second is the last of the list
C11_Witness ==
    /\ rpc = "article"
    /\ Len(urls) = 2 /\ ui = 2
    /\ ParseFails(urls[1]) /\ ~ParseFails(urls[2])
    /\ UrlsOf(all_records) = <<urls[2]>>
    /\ \E i \in 1..Len(log) : log[i].event \in {"skip", "unexpected"}

(***************************************************************************)
(* Properties of RequestHandler.get                                        *)
(***************************************************************************)
\* The call of session.get failed: a status that is no success, or a
\* RequestException
Failed(call) ==
    \/ call.kind = "RequestException"
    \/ call.kind = "response" /\ ~(200 <= call.status_code /\ call.status_code < 400)

Succeeded(call) ==
    call.kind = "response" /\ 200 <= call.status_code /\ call.status_code < 400

AllFailed == \A k \in 1..Len(calls) : Failed(calls[k])

GetEnded == gpc \in {"returned", "raised", "propagated"}

\* backoff_factor * 2^(k-1): multiplying by a power of two is exact
Backoff(k) ==
    IF FIsZero(backoff_factor) THEN FZero
    ELSE [m |-> backoff_factor.m, e |-> backoff_factor.e + (k - 1)]

\* The failed attempts that another attempt follows
FollowedFailures == {k \in 1..Len(calls) : Failed(calls[k]) /\ k <= max_retries}

C12_Safety ==
    /\ Len(calls) <= max_retries + 1
    /\ attempt = Len(calls)
    /\ (gpc = "returned") = (response # None)
    /\ gpc = "returned" =>
          /\ Succeeded(calls[Len(calls)])
          /\ response[1].status_code = calls[Len(calls)].status_code
          /\ \A k \in 1..(Len(calls) - 1) : Failed(calls[k])
    /\ \A k \in 1..(Len(calls) - 1) : ~Succeeded(calls[k])
    /\ gpc = "raised" => AllFailed /\ Len(calls) = max_retries + 1
    /\ (GetEnded /\ AllFailed /\ Len(calls) = max_retries + 1) => gpc = "raised"
    /\ Len(sleeps) = Cardinality(FollowedFailures)
    /\ \A k \in 1..Len(sleeps) : k \in FollowedFailures /\ sleeps[k] = Backoff(k)
    /\ (gpc = "loop" /\ Len(calls) > 0 /\ Failed(calls[Len(calls)]))
          => (MoreAttempts <=> Len(sleeps) = Len(calls))

\* C12: get always ends; it makes at most max_retries + 1 attempts, returns
\* the response of the first attempt with a status in [200, 400) without any
\* further attempt, never returns a response with another status, raises
\* RequestError exactly when all max_retries + 1 attempts failed, and sleeps
\* backoff_factor * 2^(k-1) after failed attempt k only when another attempt
\* follows.
C12_GetTerminates == [](C12_Safety) /\ <>GetEnded

\* get returns the response of the third attempt, after two failures and two
\* sleeps
C12_Witness ==
    /\ gpc = "returned"
    /\ max_retries = 3
    /\ Len(calls) = 3
    /\ Failed(calls[1]) /\ Failed(calls[2])
    /\ Len(sleeps) = 2
    /\ ~FIsZero(backoff_factor)

(***************************************************************************)
(* Properties of the freshness filter of run_scraper                       *)
(***************************************************************************)
\* The "fetch" lines of the log whose parse_article returned an article
BuiltLines ==
    {i \in 1..Len(log) :
        /\ log[i].event = "fetch"
        /\ (i < Len(log) => log[i + 1].event \notin {"skip", "unexpected"})}

\* The query in whose pass line i of the log was written
QueryOfLine(i) == Cardinality({j \in 1..i : log[j].event = "query"})

\* The record built at line i of the log
BuiltRecord(i) ==
    build_article_record(parse_article(log[i].url, log[i].at),
                         Get(queries[QueryOfLine(i)], "query", <<>>))

\* The timestamp of the record, None when it is absent or does not parse
PublishedTime(rec) ==
    IF rec.metadata.published = None THEN None
    ELSE parse_iso8601(rec.metadata.published[1])

\* The record passes the freshness check of the "filter" line f of the log:
\* it has no timestamp that parses, or it is not older than the hours of f
Fresh(rec, f) ==
    PublishedTime(rec) # None =>
        PublishedTime(rec)[1].hours >= log[f].at - log[f].hours[1]

\* The checks made from line i of the log on: that of the query of the line
\* and those of the later queries that have an hours_back
ChecksAfter(i) == {f \in (i + 1)..Len(log) : log[f].event = "filter"}

\* The records built that pass every check made after they were built, in the
\* order they were built in
FreshRecords ==
    LET kept  == {i \in BuiltLines : \A f \in ChecksAfter(i) : Fresh(BuiltRecord(i), f)}
        lines == SortedInts(kept)
    IN  [k \in 1..Len(lines) |-> BuiltRecord(lines[k])]

\* C13: the freshness filter is applied to the whole list after each query: a
\* record built for query i is in the output only if it passes the check with
\* the hours_back of query i and of every later query; records without a
\* timestamp that parses are never dropped; the output is an order-preserving
\* subsequence of the records built (the run always gets to write it).
C13_Freshness ==
    /\ rpc # "crashed"
    /\ rpc = "done" => output = Some(FreshRecords)
====
